---- MODULE Spec2Model ----
(***************************************************************************)
(* The HTTP tracker of sc-discovery (src/examples/udp/consumer.js, lines   *)
(* 13-172): the registry `services`, the side table `timeoutTimerIds`,     *)
(* the runtime's timer queue, and the request handler with its body        *)
(* buffering.  Time is kept relative: every live timer carries the delay   *)
(* it still has to wait, and `age` is the time since a name's last report. *)
(* The start-up (listen, its 'error' handler and the bind retry) comes     *)
(* first; requests are served once the server listens.                     *)
(***************************************************************************)
EXTENDS Naturals, FiniteSets, Sequences, TLC

\* ------------------------------------------------------------------ bounds
MaxTimeout == 2      \* the non-zero value of rc.timeout that is explored
MaxRetryBind == 1    \* the non-zero value of rc.retryBind that is explored

\* ------------------------------------------------------------------ inputs
Names == {"svc1", "svc2"}
ConcurrentSockets == {"c1", "c2"}
Sockets == {"c1"}        \* the connections open to the tracker; each carries
                         \* one request at a time
Addrs == {"A", "B"}      \* the addresses of the clients (the peers)
LocalAddr == "S"         \* the address the tracker's sockets are bound to
Methods == {"POST", "GET"}
Urls == {"/", "/other"}
Payloads == {"p1"}

Null == 0            \* the null stored in timeoutTimerIds when a timer fired

\* A value a client can put under a service name: a JSON object (its own
\* fields in `payload`, an optional `available`), the JSON null, or a JSON
\* primitive (string, number, boolean).
ClientDescs ==
  [kind : {"object"}, payload : Payloads, available : {"absent", "true", "false"},
   rinfo : {"absent"}]
  \cup {[kind |-> k, payload |-> "none", available |-> "absent", rinfo |-> "absent"] :
          k \in {"null", "primitive"}}

Reports == UNION {[S -> ClientDescs] : S \in SUBSET Names}

NoReports == [n \in {} |-> 0]

\* Request bodies, by what JSON.parse makes of their text.
\*   text "bad"    : not JSON            text "null"   : the JSON null
\*   text "prim"   : a JSON primitive    text "object" : a JSON object
\* `services` says what the object has under "services".
Bodies ==
  {[text |-> t, services |-> "absent", reports |-> NoReports] :
      t \in {"bad", "null", "prim", "object"}}
  \cup {[text |-> "object", services |-> s, reports |-> NoReports] :
      s \in {"prim", "null"}}
  \cup {[text |-> "object", services |-> "object", reports |-> r] : r \in Reports}

EmptyBody == [text |-> "empty", services |-> "absent", reports |-> NoReports]

\* A request being buffered: what the handler reads of `req` (req.method,
\* req.url) and whether bufferRequest's `buffer` has text yet.
Requests == [method : Methods, url : Urls, buffer : {"empty", "text"}]

Idle == [method |-> "none", url |-> "none", buffer |-> "none"]

\* What is logged of a body: its text class and what it has under "services".
Shape(body) == [text |-> body.text, services |-> body.services]

VARIABLES
  rc,               \* the options: rc.timeout
  strict,           \* whether the tracker's code runs as strict-mode code
  services,         \* line 45: name -> descriptor
  timeoutTimerIds,  \* line 46: name -> timer handle or null
  timers,           \* the runtime's queue of armed timers
  age,              \* time since the last report of a name, capped at rc.timeout
  pending,          \* socket -> the request whose body is being buffered
  crashed,          \* an exception left a callback: the process is gone
  event,            \* the step taken last and what it answered
  bind              \* the start-up: where listen stands, and rc.retryBind

vars == <<rc, strict, services, timeoutTimerIds, timers, age, pending, crashed,
          event, bind>>

\* The start-up's state (lines 55-80): phase is "binding" while a listen
\* call is out, "waiting" while the retry timer of line 72 runs (for `left`
\* more units), "failed" once an error was only logged, "listening" after
\* the 'listening' event; code is the code of the last 'error'.  retryBind
\* is the option rc.retryBind, which nothing but the 'error' handler reads:
\* once the server listens the start-up's state is dead and is Listening.
ErrorCodes == {"EADDRINUSE", "EACCES"}

Listening == [phase |-> "listening", retryBind |-> 0, code |-> "none", left |-> 0]

\* What the last step answered; steps that answer nothing leave NoEvent.
\* event.merged is the report handed to updateServices (empty when the
\* request did not get that far), event.debounced the names whose running
\* timer it cleared, event.repeat whether the report found the registry
\* already holding what it reports.
NoEvent == [type |-> "none", method |-> "none", url |-> "none",
            body |-> Shape(EmptyBody), merged |-> NoReports,
            debounced |-> {}, repeat |-> FALSE, name |-> "none",
            status |-> "none", sent |-> NoReports]

\* ----------------------------------------------------------------- helpers
Min(a, b) == IF a < b THEN a ELSE b

\* String.prototype.toUpperCase on a method token (line 113).
ToUpperCase(m) ==
  CASE m = "post" -> "POST"
    [] m = "get" -> "GET"
    [] OTHER -> m

\* Object.keys (line 154) yields the keys in the order of the body text.
\* Clients write "svc1" before "svc2"; the names are interchangeable, so the
\* other order is the same report with the names swapped.
KeyOrder == <<"svc1", "svc2">>

RECURSIVE SelectKeys(_, _)
SelectKeys(seq, S) ==
  IF seq = <<>> THEN <<>>
  ELSE IF Head(seq) \in S THEN <<Head(seq)>> \o SelectKeys(Tail(seq), S)
  ELSE SelectKeys(Tail(seq), S)

ObjectKeys(r) == SelectKeys(KeyOrder, DOMAIN r)

\* JSON.stringify of one registry value (line 130): an object's fields, with
\* an absent field left out; null and primitives have no fields.
ToJSON(d) ==
  [type |-> d.kind,
   fields |->
     IF d.kind # "object" THEN {}
     ELSE {<<"payload", d.payload>>}
          \cup (IF d.rinfo = "absent" THEN {} ELSE {<<"rinfo", d.rinfo>>})
          \cup (IF d.available = "absent" THEN {} ELSE {<<"available", d.available>>})]

JSONstringify(s) == [n \in DOMAIN s |-> ToJSON(s[n])]

\* typeof data.services === 'object' (line 125); typeof null is 'object'.
TypeofServicesIsObject(body) == body.services \in {"object", "null"}

\* setTimeout returns a fresh handle: one that no live timer has and the
\* table does not hold.  A handle is the pair of the name its callback
\* closes over and a number.
NewTimerId(tm, ids, name) ==
  LET used == {t.id : t \in {x \in tm : x.name = name}}
              \cup (IF name \in DOMAIN ids THEN {ids[name]} ELSE {})
  IN  CHOOSE i \in 1..(Cardinality(used) + 1) : i \notin used

\* A clearTimeout that cancels nothing.
clearTimeoutNone(tm, name, id) == tm

\* A clearTimeout that empties the queue.
clearTimeoutAll(tm, name, id) == {}

\* clearTimeout (line 163): the timer with that handle is taken off the queue.
clearTimeout(tm, name, id) == {t \in tm : ~(t.name = name /\ t.id = id)}

\* --------------------------------------------------------- updateServices
\* One turn of the forEach callback (lines 155-170) on the working state
\* st = [services, ids, timers, merged, debounced, thrown]; merged are the
\* names stored so far, debounced the names for which clearTimeout took a
\* timer off the queue that had started to run and was not yet due.
\*   155  services[name] = data.services[name]
\*   156  services[name].rinfo = rinfo   (TypeError on null; on a primitive
\*        a TypeError in strict code, nothing in sloppy code)
\*   158  no timer when rc.timeout is falsy
\*   162  a truthy handle in the table is cleared
\*   166  a timer is armed for rc.timeout and its handle stored
StoreDescriptor(d, rinfo) ==
  IF d.kind = "object" THEN [d EXCEPT !.rinfo = rinfo] ELSE d

\* A stamp that is skipped where it would throw.
StampThrowsNever(d) == FALSE

StampThrows(d) == d.kind = "null" \/ (d.kind = "primitive" /\ strict)

\* The forEach callback that leaves the pending timer alone.
ClearPendingNever(st, name) == st.timers

ClearPending(st, name) ==
  IF name \in DOMAIN st.ids /\ st.ids[name] # Null
    THEN clearTimeout(st.timers, name, st.ids[name])
    ELSE st.timers

\* The forEach callback that arms no timer while one is pending
\* (`if (timeoutTimerIds[name]) return;`).
ArmTimerOnce(st, name) ==
  IF name \in DOMAIN st.ids /\ st.ids[name] # Null THEN st
  ELSE [st EXCEPT
          !.timers = st.timers \cup {[id |-> 1, name |-> name, left |-> rc.timeout]},
          !.ids = [n \in DOMAIN st.ids \cup {name} |->
                     IF n = name THEN 1 ELSE st.ids[n]]]

ArmTimer(st, name) ==
  LET cleared == ClearPending(st, name)
      id == NewTimerId(cleared, st.ids, name)
  IN  [st EXCEPT
         !.timers = cleared \cup {[id |-> id, name |-> name, left |-> rc.timeout]},
         !.debounced = st.debounced \cup
                         {t.name : t \in {x \in st.timers \ cleared :
                                            0 < x.left /\ x.left < rc.timeout}},
         !.ids = [n \in DOMAIN st.ids \cup {name} |->
                    IF n = name THEN id ELSE st.ids[n]]]

MergeOne(st, name, d, rinfo) ==
  LET stored == [st EXCEPT
                   !.services = [n \in DOMAIN st.services \cup {name} |->
                                   IF n = name THEN StoreDescriptor(d, rinfo)
                                   ELSE st.services[n]],
                   !.merged = st.merged \cup {name}]
  IN  IF StampThrows(d) THEN [stored EXCEPT !.thrown = TRUE]
      ELSE IF rc.timeout = 0 THEN stored
      ELSE ArmTimer(stored, name)

\* A forEach that runs its callback for the first key only.
ForEachFirst(st, reports, order, i, rinfo) ==
  IF i > Len(order) THEN st
  ELSE MergeOne(st, order[i], reports[order[i]], rinfo)

RECURSIVE ForEach(_, _, _, _, _)
ForEach(st, reports, order, i, rinfo) ==
  IF i > Len(order) \/ st.thrown THEN st
  ELSE ForEach(MergeOne(st, order[i], reports[order[i]], rinfo),
               reports, order, i + 1, rinfo)

\* updateServices(data, rinfo), lines 153-172.  Object.keys(null) throws
\* before anything is stored.
updateServices(st, body, rinfo) ==
  IF body.services = "null" THEN [st EXCEPT !.thrown = TRUE]
  ELSE ForEach(st, body.reports, ObjectKeys(body.reports), 1, rinfo)

Current ==
  [services |-> services, ids |-> timeoutTimerIds, timers |-> timers,
   merged |-> {}, debounced |-> {}, thrown |-> FALSE]

\* ------------------------------------------------------------ the callback
\* req.client.address() (line 126): req.client is the connection's socket,
\* and net.Socket#address() is the address the socket is BOUND to
\* (getsockname), the tracker's own end of the connection.  The peer's
\* address (socket.remoteAddress) is read nowhere.
ClientAddress(r) == LocalAddr

\* The route test with && for || (404 only when both are wrong).
RouteOkEither(r) == r.url = "/" \/ ToUpperCase(r.method) = "POST"

RouteOk(r) == r.url = "/" /\ ToUpperCase(r.method) = "POST"

\* A parser that takes any text that was received.
ParseFailsLax(body, failed) == failed \/ body.text = "empty"

ParseFails(body, failed) == failed \/ body.text \in {"bad", "empty"}

\* The callback handleRequest gives bufferRequest (lines 112-144), run with
\* (err, data).  `failed` says that it runs for an 'error' event, where
\* data is undefined and JSON.parse(undefined) throws a SyntaxError.
\* Result: the status answered ("throw" when an exception leaves the
\* callback, which nothing catches), the working state, and the report
\* handed to updateServices.
Callback(r, body, failed) ==
  IF ~RouteOk(r) THEN [status |-> "404", st |-> Current, merged |-> NoReports]
  ELSE IF ParseFails(body, failed)
    THEN [status |-> "400", st |-> Current, merged |-> NoReports]
  ELSE IF body.text = "null"
    THEN [status |-> "throw", st |-> [Current EXCEPT !.thrown = TRUE],
          merged |-> NoReports]
  ELSE IF body.text = "object" /\ TypeofServicesIsObject(body)
    THEN LET st == updateServices(Current, body, ClientAddress(r))
         IN  [status |-> IF st.thrown THEN "throw" ELSE "200", st |-> st,
              merged |-> body.reports]
  ELSE [status |-> "200", st |-> Current, merged |-> NoReports]

\* What res.end writes: the reason phrase for an error (lines 134-141), the
\* serialized registry for a 200 (line 130), nothing when the callback threw.
Sent(res) ==
  IF res.status = "200" THEN JSONstringify(res.st.services) ELSE NoReports

\* ------------------------------------------------------------------ actions
\* The file opens with 'use strict' (line 1) and restarts as a script at
\* line 13: whether the tracker's functions are strict code depends on how
\* the file is cut, so both are explored.  rc.timeout is 0 (expiry off) or
\* MaxTimeout.
Init ==
  /\ rc \in {[timeout |-> t] : t \in {0, MaxTimeout}}
  /\ strict \in BOOLEAN
  /\ services = NoReports
  /\ timeoutTimerIds = NoReports
  /\ timers = {}
  /\ age = [n \in Names |-> 0]
  /\ pending = [c \in Sockets |-> Idle]
  /\ crashed = FALSE
  /\ event = NoEvent
  /\ bind \in {[phase |-> "binding", retryBind |-> b, code |-> "none", left |-> 0] :
                 b \in {0, MaxRetryBind}}

\* 'listening' (lines 58-66): the bind succeeded.
Listen ==
  /\ bind.phase = "binding"
  /\ bind' = Listening
  /\ UNCHANGED <<rc, strict, services, timeoutTimerIds, timers, age, pending,
                 crashed, event>>

\* 'error' (lines 67-79) for a listen call that failed with `code`:
\*   70  err.code === 'EADDRINUSE' || rc.retryBind
\*   72  setTimeout(function () { server.listen(rc.port); }, rc.retryBind)
\*   78  console.error, and nothing else
BindError(code) ==
  /\ bind.phase = "binding"
  /\ bind' = IF code = "EADDRINUSE" \/ bind.retryBind # 0
               THEN [bind EXCEPT !.phase = "waiting", !.code = code,
                                 !.left = bind.retryBind]
               ELSE [bind EXCEPT !.phase = "failed", !.code = code]
  /\ UNCHANGED <<rc, strict, services, timeoutTimerIds, timers, age, pending,
                 crashed, event>>

\* The retry timer's callback (lines 72-74): server.listen(rc.port).
RetryBind ==
  /\ bind.phase = "waiting" /\ bind.left = 0
  /\ bind' = [bind EXCEPT !.phase = "binding"]
  /\ UNCHANGED <<rc, strict, services, timeoutTimerIds, timers, age, pending,
                 crashed, event>>

\* 'request' (line 80): handleRequest calls bufferRequest, which registers
\* the listeners (lines 89-100) with an empty buffer.
Request(c, m, u) ==
  /\ ~crashed
  /\ bind.phase = "listening"
  /\ pending[c] = Idle
  /\ pending' = [pending EXCEPT ![c] = [method |-> m, url |-> u, buffer |-> "empty"]]
  /\ event' = NoEvent
  /\ UNCHANGED <<rc, strict, services, timeoutTimerIds, timers, age, crashed, bind>>

\* 'data' (lines 93-95): a chunk is appended to the buffer.
Data(c) ==
  /\ ~crashed
  /\ pending[c] # Idle
  /\ pending' = [pending EXCEPT ![c].buffer = "text"]
  /\ event' = NoEvent
  /\ UNCHANGED <<rc, strict, services, timeoutTimerIds, timers, age, crashed, bind>>

\* A report repeats the one before it when every name it reports is in the
\* registry with the value the report stores and, with expiry on, the timer
\* armed for it has not fired.
Repeats(report, rinfo) ==
  /\ DOMAIN report # {}
  /\ \A n \in DOMAIN report :
        /\ n \in DOMAIN services
        /\ services[n] = StoreDescriptor(report[n], rinfo)
        /\ rc.timeout # 0 =>
              \E t \in timers : t.name = n /\ timeoutTimerIds[n] = t.id

\* The callback's effect on the state, common to 'end' and 'error'.
Finish(c, body, failed, type) ==
  LET r == pending[c]
  IN  \E res \in {Callback(r, body, failed)} :
      /\ services' = res.st.services
      /\ timeoutTimerIds' = res.st.ids
      /\ timers' = res.st.timers
      /\ age' = [n \in Names |-> IF n \in res.st.merged THEN 0 ELSE age[n]]
      /\ crashed' = res.st.thrown
      /\ pending' = [pending EXCEPT ![c] = Idle]
      /\ event' = [type |-> type, method |-> r.method, url |-> r.url,
                   body |-> Shape(body), merged |-> res.merged,
                   debounced |-> res.st.debounced,
                   repeat |-> Repeats(res.merged, ClientAddress(r)),
                   name |-> "none",
                   status |-> res.status, sent |-> Sent(res)]
      /\ UNCHANGED <<rc, strict, bind>>

\* 'end' (lines 96-98): callback(null, buffer).  The buffer is empty when no
\* chunk came, and otherwise the text the client sent.
End(c) ==
  /\ ~crashed
  /\ pending[c] # Idle
  /\ \E body \in (IF pending[c].buffer = "empty" THEN {EmptyBody} ELSE Bodies) :
       Finish(c, body, FALSE, "end")

\* An 'error' listener that hands the callback what was buffered so far.
ErrorAsEnd(c) ==
  /\ ~crashed
  /\ pending[c] # Idle
  /\ \E body \in Bodies : Finish(c, body, FALSE, "error")

\* 'error' (line 99): callback(err), data undefined.  The stream is over
\* with it: no 'end' follows an 'error'.
Error(c) ==
  /\ ~crashed
  /\ pending[c] # Idle
  /\ Finish(c, EmptyBody, TRUE, "error")

\* The callback of setTimeout (lines 166-170), run once the delay is over.
\*   167  timeoutTimerIds[name] = null
\*   169  services[name].available = false  (TypeError when the value is
\*        undefined or null; on a primitive as in line 156)
WriteThrows(name) ==
  \/ name \notin DOMAIN services
  \/ services[name].kind = "null"
  \/ (services[name].kind = "primitive" /\ strict)

\* An expiry that removes the entry.
MarkUnavailableDelete(s, name) == [n \in DOMAIN s \ {name} |-> s[n]]

\* An expiry that marks every entry.
MarkUnavailableAll(s, name) ==
  [n \in DOMAIN s |->
     IF s[n].kind = "object" THEN [s[n] EXCEPT !.available = "false"] ELSE s[n]]

\* Line 169 on the registry s: the write lands on an object only.
MarkUnavailable(s, name) ==
  IF name \in DOMAIN s /\ s[name].kind = "object"
    THEN [s EXCEPT ![name].available = "false"]
    ELSE s

Timeout(t) ==
  /\ ~crashed
  /\ t \in timers /\ t.left = 0
  /\ timers' = timers \ {t}
  /\ timeoutTimerIds' = [n \in DOMAIN timeoutTimerIds \cup {t.name} |->
                           IF n = t.name THEN Null ELSE timeoutTimerIds[n]]
  /\ services' = MarkUnavailable(services, t.name)
  /\ crashed' = WriteThrows(t.name)
  /\ event' = [NoEvent EXCEPT !.type = "timeout", !.name = t.name,
                              !.status = IF WriteThrows(t.name) THEN "throw" ELSE "none"]
  /\ UNCHANGED <<rc, strict, age, pending, bind>>

\* One unit of time passes: every armed timer has one unit less to wait.
Tick ==
  /\ ~crashed
  /\ timers' = {[t EXCEPT !.left = IF t.left > 0 THEN t.left - 1 ELSE 0] : t \in timers}
  /\ bind' = [bind EXCEPT !.left = IF bind.left > 0 THEN bind.left - 1 ELSE 0]
  /\ age' = [n \in Names |-> Min(age[n] + 1, rc.timeout)]
  /\ event' = NoEvent
  /\ UNCHANGED <<rc, strict, services, timeoutTimerIds, pending, crashed>>

Next ==
  \/ Listen
  \/ \E code \in ErrorCodes : BindError(code)
  \/ RetryBind
  \/ \E c \in DOMAIN pending, m \in Methods, u \in Urls : Request(c, m, u)
  \/ \E c \in DOMAIN pending : Data(c)
  \/ \E c \in DOMAIN pending : End(c)
  \/ \E c \in DOMAIN pending : Error(c)
  \/ \E t \in timers : Timeout(t)
  \/ Tick

Spec == Init /\ [][Next]_vars

\* The listening tracker with two connections open, each sending reports
\* (POST /): two requests can be buffering at once, their 'data' and 'end'
\* events interleaved with each other and with the timers.  Expiry is on.
ConcurrentInit ==
  /\ rc = [timeout |-> MaxTimeout]
  /\ strict \in BOOLEAN
  /\ services = NoReports
  /\ timeoutTimerIds = NoReports
  /\ timers = {}
  /\ age = [n \in Names |-> 0]
  /\ pending = [c \in ConcurrentSockets |-> Idle]
  /\ crashed = FALSE
  /\ event = NoEvent
  /\ bind = Listening

ConcurrentNext ==
  \/ \E c \in DOMAIN pending : Request(c, "POST", "/")
  \/ \E c \in DOMAIN pending : Data(c)
  \/ \E c \in DOMAIN pending : End(c)
  \/ \E t \in timers : Timeout(t)
  \/ Tick

ConcurrentSpec == ConcurrentInit /\ [][ConcurrentNext]_vars

\* Time passes, and a timer that is due is run: the runtime runs the due
\* timers of every name, none is starved by the others.
FairSpec ==
  /\ Spec
  /\ WF_vars(Tick)
  /\ \A n \in Names : WF_vars(\E t \in timers : t.name = n /\ Timeout(t))

\* ------------------------------------------------------------------ claims
Answered(e) == e.type \in {"end", "error"}

Merged(e) == e.type = "end" /\ DOMAIN e.merged # {}

Unavailable(s, n) ==
  n \in DOMAIN s /\ s[n].kind = "object" /\ s[n].available = "false"

LiveTimers(n) == {t \in timers : t.name = n}

\* C1: after a request merged a report, every name of the report holds the
\* reported descriptor stamped with the address of a reporting client and
\* with available = true.
C1_MergeStampsAddressAndAvailable ==
  (Merged(event) /\ event.status = "200") =>
    \A n \in DOMAIN event.merged :
      /\ n \in DOMAIN services
      /\ services[n].kind = event.merged[n].kind
      /\ services[n].payload = event.merged[n].payload
      /\ services[n].rinfo \in Addrs
      /\ services[n].available = "true"

\* C2: with a non-zero timeout, a step that marks an entry unavailable
\* without that name being reported in the step (a timer firing) is taken
\* only when the full timeout has elapsed since the name's last report.
MarkedUnavailable(n) ==
  /\ ~Unavailable(services, n)
  /\ Unavailable(services', n)
  /\ n \notin DOMAIN event'.merged

C2_Debounce ==
  [][\A n \in Names :
       (rc.timeout # 0 /\ (MarkedUnavailable(n) \/ (event'.type = "timeout" /\ event'.name = n)))
         => age[n] >= rc.timeout]_vars

\* C2 witness: a report has just cancelled a timer that had started to run
\* and was not yet due, and armed a new one for the full timeout.
C2_Witness ==
  /\ Merged(event)
  /\ \E n \in event.debounced :
       /\ LiveTimers(n) = {[id |-> timeoutTimerIds[n], name |-> n, left |-> rc.timeout]}
       /\ age[n] = 0

\* C3: with a non-zero timeout, a name whose last report has run out its
\* timer (the handle is cleared and nothing is armed for the name, so
\* nothing will write to the entry until a new report) has available = false.
C3_ExpiredIsUnavailable ==
  \A n \in DOMAIN timeoutTimerIds :
    (rc.timeout # 0 /\ ~crashed /\ timeoutTimerIds[n] = Null /\ LiveTimers(n) = {})
      => Unavailable(services, n)

\* C4: an entry that is unavailable stays as it is in every step that does
\* not merge a report of its name; a timer that fires is off the queue, and
\* a name whose handle is cleared has no timer left to fire.
C4_StaysUnavailable ==
  [][\A n \in Names :
       /\ (Unavailable(services, n) /\ n \notin DOMAIN event'.merged)
            => (n \in DOMAIN services' /\ services'[n] = services[n])
       /\ (event'.type = "timeout" /\ event'.name = n)
            => (LiveTimers(n)' = {} /\ timeoutTimerIds'[n] = Null)]_vars

\* C4 witness: an entry expired, then a request that does not report it was
\* answered 200 while the other name was reported.
C4_Witness ==
  /\ Merged(event) /\ event.status = "200"
  /\ \E n \in Names \ DOMAIN event.merged :
       /\ Unavailable(services, n)
       /\ n \in DOMAIN timeoutTimerIds /\ timeoutTimerIds[n] = Null
       /\ age[n] = rc.timeout /\ rc.timeout # 0

\* C5: a POST / whose body is valid JSON without a `services` object is
\* answered 200 with the snapshot and changes neither registry nor timers.
IsQuery(e) ==
  /\ e.type = "end" /\ RouteOk(e)
  /\ e.body.text \in {"null", "prim", "object"}
  /\ e.body.services \in {"absent", "prim", "null"}

C5_QueryIsPure ==
  [][IsQuery(event') =>
       /\ event'.status = "200"
       /\ event'.sent = JSONstringify(services)
       /\ UNCHANGED <<services, timeoutTimerIds, timers>>]_vars

\* C6: a POST / whose body is not valid JSON is answered 400, and a request
\* answered 400 or 404 leaves the registry and every timer as they were.
C6_BadRequestChangesNothing ==
  [][/\ (event'.type = "end" /\ RouteOk(event') /\ event'.body.text \in {"bad", "empty"})
          => event'.status = "400"
     /\ (Answered(event') /\ event'.status \in {"400", "404"})
          => (UNCHANGED <<services, timeoutTimerIds, timers, age>> /\ ~crashed')]_vars

\* C6 witness: malformed text was answered 400 while an entry and its timer
\* were in place.
C6_Witness ==
  /\ event.type = "end" /\ event.status = "400" /\ event.body.text = "bad"
  /\ \E n \in DOMAIN services : LiveTimers(n) # {}

\* C7: a request that is not POST / is answered 404 whatever its body, and
\* nothing of its body is merged.
C7_RoutingPrecedesParsing ==
  [][(Answered(event') /\ ~(event'.url = "/" /\ event'.method = "POST"))
       => /\ event'.status = "404"
          /\ event'.merged = NoReports
          /\ UNCHANGED <<services, timeoutTimerIds, timers>>]_vars

\* C7 witness: a GET / that carried a services report was answered 404.
C7_Witness ==
  /\ event.type = "end" /\ event.status = "404"
  /\ event.method = "GET" /\ event.url = "/"
  /\ event.body.text = "object" /\ event.body.services = "object"

\* C8: a POST / whose body decodes as JSON is answered 200 with the whole
\* registry as it stands after the request's own merge.
C8_DecodedIsAnsweredWithRegistry ==
  (event.type = "end" /\ RouteOk(event) /\ event.body.text \notin {"bad", "empty"})
    => (event.status = "200" /\ event.sent = JSONstringify(services))

\* C9: whatever the request, handling ends in one of 200, 400, 404; no
\* exception leaves the handler and the service keeps running.
C9_NoExceptionEscapes ==
  /\ ~crashed
  /\ Answered(event) => event.status \in {"200", "400", "404"}

\* C10: a merge stamps every name it reports with the address of a client,
\* the one that sent it, and leaves every other name's entry and timer
\* alone.
C10_MultiClientMerge ==
  [][(Merged(event') /\ event'.status = "200") =>
       /\ \A n \in DOMAIN event'.merged :
            n \in DOMAIN services' /\ services'[n].rinfo \in Addrs
       /\ \A n \in DOMAIN services \ DOMAIN event'.merged :
            /\ n \in DOMAIN services' /\ services'[n] = services[n]
            /\ LiveTimers(n)' = LiveTimers(n)]_vars

\* C11: with rc.timeout 0 no timer is ever armed and no entry of the
\* registry has available = false.
C11_DisabledExpiry ==
  rc.timeout = 0 =>
    /\ timers = {}
    /\ \A n \in DOMAIN services : ~Unavailable(services, n)

\* C12: merging a report that repeats the one before it (same names, same
\* values, same client, no timer fired since) leaves the registry and the
\* keys of the timer table as they are; the timers of the other names are
\* untouched and each reported name has exactly one timer, armed afresh.
C12_MergeIdempotent ==
  [][(event'.repeat /\ event'.status = "200") =>
       /\ services' = services
       /\ DOMAIN timeoutTimerIds' = DOMAIN timeoutTimerIds
       /\ \A n \in Names \ DOMAIN event'.merged :
            /\ {t \in timers' : t.name = n} = {t \in timers : t.name = n}
            /\ n \in DOMAIN timeoutTimerIds => timeoutTimerIds'[n] = timeoutTimerIds[n]
       /\ \A n \in DOMAIN event'.merged :
            rc.timeout # 0 =>
              /\ Cardinality({t \in timers' : t.name = n}) = 1
              /\ \A t \in timers' : t.name = n =>
                   t.left = rc.timeout /\ timeoutTimerIds'[n] = t.id]_vars

\* A report for one name was repeated while the other name's timer runs.
C12_Witness ==
  /\ event.repeat /\ event.status = "200"
  /\ rc.timeout # 0
  /\ \E n \in Names \ DOMAIN event.merged : LiveTimers(n) # {}

\* C13: rc.retryBind decides whether a failed bind is retried: when it is
\* truthy an address-in-use failure arms the retry for that interval, when
\* it is falsy a failure of any kind is logged and no retry is armed.
C13_RetryBindDecides ==
  [][(bind.phase = "binding" /\ bind'.phase \in {"waiting", "failed"}) =>
       /\ (bind.retryBind # 0 /\ bind'.code = "EADDRINUSE") =>
            (bind'.phase = "waiting" /\ bind'.left = bind.retryBind)
       /\ bind.retryBind = 0 => bind'.phase = "failed"]_vars

\* C14: a name has at most one live timer, and a live timer is the one the
\* timer table refers to: no duplicate and no unreferenced timer is armed.
C14_OneLiveTimerPerName ==
  \A n \in Names :
    /\ Cardinality(LiveTimers(n)) <= 1
    /\ \A t \in LiveTimers(n) :
         n \in DOMAIN timeoutTimerIds /\ timeoutTimerIds[n] = t.id

\* A re-report has just replaced a name's running timer.
C14_Witness ==
  \E n \in event.debounced :
    \E t \in timers : LiveTimers(n) = {t} /\ t.left = rc.timeout

\* C15: no step takes a name out of the registry, and every 200 response
\* lists every name that was in the registry before the step.
C15_NamesNeverShrink ==
  [][/\ DOMAIN services \subseteq DOMAIN services'
     /\ event'.status = "200" => DOMAIN services \subseteq DOMAIN event'.sent]_vars

\* A 200 response lists a name whose timer has fired.
C15_Witness ==
  /\ event.status = "200"
  /\ \E n \in DOMAIN event.sent :
       /\ n \notin DOMAIN event.merged
       /\ n \in DOMAIN timeoutTimerIds /\ timeoutTimerIds[n] = Null
       /\ Unavailable(services, n)

\* C16: an 'error' while a body is buffered merges nothing: the registry,
\* the timer table and the timer queue are unchanged, no exception leaves
\* the callback, the request is answered with an error status and its
\* listeners are gone, so it is answered once.
C16_TransportErrorMergesNothing ==
  [][event'.type = "error" =>
       /\ UNCHANGED <<services, timeoutTimerIds, timers>>
       /\ ~crashed'
       /\ DOMAIN event'.merged = {}
       /\ event'.status \in {"400", "404"}
       /\ \A c \in DOMAIN pending : pending'[c] # pending[c] => pending'[c] = Idle]_vars

\* A POST / failed in transport while a name's timer was running.
C16_Witness ==
  /\ event.type = "error"
  /\ event.url = "/" /\ event.method = "POST"
  /\ \E n \in DOMAIN services : LiveTimers(n) # {}

\* C17: a merge is atomic for every other callback.  In the state a request
\* leaves behind, which is the state the next 'data', 'end' or timer
\* callback finds, every name of the report it merged is applied, with its
\* value and its timer, and the snapshot it sent is the registry of that
\* state: nothing ran between its merge and its serialization.
C17_MergeIsAtomic ==
  (Answered(event) /\ ~crashed) =>
    /\ \A n \in DOMAIN event.merged :
         /\ n \in DOMAIN services
         /\ services[n] = StoreDescriptor(event.merged[n], LocalAddr)
         /\ rc.timeout # 0 => \E t \in timers : t.name = n /\ t.left = rc.timeout
    /\ event.status = "200" => event.sent = JSONstringify(services)

\* A report of two names was merged and answered while the other
\* connection's request body was arriving.
C17_Witness ==
  /\ event.status = "200"
  /\ DOMAIN event.merged = Names
  /\ \E c \in DOMAIN pending : pending[c] # Idle /\ pending[c].buffer = "text"

\* C18: while the process lives, every armed timer's name has an entry that
\* takes the write of line 169 without a TypeError, and no timer that
\* fired has thrown.
C18_TimerFindsItsEntry ==
  /\ ~crashed =>
       \A t \in timers :
         /\ t.name \in DOMAIN services
         /\ services[t.name].kind # "null"
         /\ ~(services[t.name].kind = "primitive" /\ strict)
  /\ event.type = "timeout" => event.status # "throw"

\* A timer has fired and found the entry of its name.
C18_Witness ==
  /\ event.type = "timeout" /\ event.status = "none"
  /\ event.name \in DOMAIN services
  /\ ~crashed

\* C19: with a non-zero timeout every name in the registry of the living
\* process has a live timer or is marked available = false.
C19_NoEntryAvailableForever ==
  (rc.timeout # 0 /\ ~crashed) =>
    \A n \in DOMAIN services : LiveTimers(n) # {} \/ Unavailable(services, n)

\* C20: a timer firing for a name writes available = false to that name's
\* entry and null to that name's key of the timer table, and nothing else:
\* the keys of both maps, the entry's other fields, and the other names'
\* entries, handles and timers stay as they are.
C20_TimeoutFrame ==
  [][(event'.type = "timeout" /\ timers' # timers) =>
       LET n == event'.name IN
         /\ DOMAIN services' = DOMAIN services
         /\ \A m \in DOMAIN services :
              services'[m] =
                IF m = n /\ services[m].kind = "object"
                  THEN [services[m] EXCEPT !.available = "false"]
                  ELSE services[m]
         /\ DOMAIN timeoutTimerIds' = DOMAIN timeoutTimerIds
         /\ \A m \in DOMAIN timeoutTimerIds :
              timeoutTimerIds'[m] = IF m = n THEN Null ELSE timeoutTimerIds[m]
         /\ {t \in timers' : t.name # n} = {t \in timers : t.name # n}]_vars

\* A timer has fired while the other name was available with its own
\* timer running.
C20_Witness ==
  /\ event.type = "timeout"
  /\ Unavailable(services, event.name)
  /\ \E m \in DOMAIN services \ {event.name} :
       /\ ~Unavailable(services, m)
       /\ \E t \in LiveTimers(m) : t.left > 0

====
